---- MODULE Spec2Model ----
(***************************************************************************)
(* unifi-rs: the connection builder (UnifiClientBuilder), the resource     *)
(* client (UnifiClient) and the JSON decoding its operations rely on.      *)
(*                                                                         *)
(* Strings that the code takes apart (URLs, header values) are sequences   *)
(* of tokens or of byte values; JSON documents are tagged records.         *)
(* Option<T> is a set with at most one element: None is {}, Some(v) is {v}.*)
(***************************************************************************)
EXTENDS Integers, Sequences, FiniteSets, TLC

VARIABLES
    phase,      \* "builder" while the builder is configured, "built" after build()
    builder,    \* UnifiClientBuilder {base_url, api_key, verify_ssl}
    built,      \* Option<Result<UnifiClient, UnifiError>>: what build() returned
    call,       \* per caller: the invocation of an operation in progress
    wire,       \* per caller: the HTTP requests its invocation handed to the transport
    transport_ok, \* environment: reqwest can set up its transport (TLS backend, resolver)
    server,     \* environment: the device ids the controller holds, in its listing order
    test        \* a serde_json::from_str::<T>(json) evaluation: type, document, outcome

vars == <<phase, builder, built, call, wire, transport_ok, server, test>>

----------------------------------------------------------------------------
(* Bounds of the model *)

MaxOffset == 1
MaxLimit == 2

(* Program constants *)

DefaultOffset == 0
DefaultLimit == 25
U16Max == 65535
I32Max == 2147483647

----------------------------------------------------------------------------
(* Option and Result *)

None == {}
Some(v) == {v}
unwrap(o) == CHOOSE v \in o : TRUE
unwrap_or(o, d) == IF o = None THEN d ELSE unwrap(o)

Ok(v) == [ok |-> TRUE, v |-> v]
Err(e) == [ok |-> FALSE, e |-> e]

(* UnifiError *)
Http(kind) == [variant |-> "Http", kind |-> kind]
Api(status_code, message) ==
    [variant |-> "Api", status_code |-> status_code, message |-> message]
Url(kind) == [variant |-> "Url", kind |-> kind]
Config(message) == [variant |-> "Config", message |-> message]

UnifiError == {"Http", "Api", "Url", "Config"}

----------------------------------------------------------------------------
(* JSON documents *)

JNull == [t |-> "null"]
JBool(b) == [t |-> "bool", b |-> b]
JNum(n) == [t |-> "num", n |-> n]          \* a number written without fraction or exponent
JFloat(tenths) == [t |-> "float", tenths |-> tenths]   \* a number written with a fraction
JStr(s) == [t |-> "str", s |-> s]
JArr(a) == [t |-> "arr", a |-> a]
JObj(f) == [t |-> "obj", f |-> f]
Malformed == [t |-> "malformed"]           \* bytes that are not a JSON document

\* a JSON object with some of its members left out, or with one member replaced
Without(j, names) == JObj([n \in DOMAIN j.f \ names |-> j.f[n]])
With(j, name, value) ==
    JObj([n \in DOMAIN j.f \cup { name } |-> IF n = name THEN value ELSE j.f[n]])

(* Type descriptors of the Deserialize implementations *)
U16 == [k |-> "u16"]
I32 == [k |-> "i32"]
I64 == [k |-> "i64"]
F64 == [k |-> "f64"]
Bool == [k |-> "bool"]
String == [k |-> "String"]
Uuid == [k |-> "Uuid"]
DateTime == [k |-> "DateTime"]
Unit == [k |-> "unit"]
Option(ty) == [k |-> "opt", of |-> ty]
Vec(ty) == [k |-> "vec", of |-> ty]
Struct(name, fields) == [k |-> "struct", name |-> name, fields |-> fields]
\* a field: its wire name, its Rust name, its type, and whether #[serde(default)] is set
\* and whether #[serde(flatten)] is set
Field(wire_name, name, ty) ==
    [wire |-> wire_name, name |-> name, ty |-> ty, default |-> FALSE, flatten |-> FALSE]
FieldDefault(wire_name, name, ty) ==
    [wire |-> wire_name, name |-> name, ty |-> ty, default |-> TRUE, flatten |-> FALSE]
FieldFlatten(name, ty) ==
    [wire |-> "", name |-> name, ty |-> ty, default |-> FALSE, flatten |-> TRUE]
\* a unit-variant enum: the wire literal of each variant
Enum(name, variants) == [k |-> "enum", name |-> name, variants |-> variants]
Variant(wire_name, name) == [wire |-> wire_name, name |-> name]
\* an internally tagged enum: #[serde(tag = ...)], each variant holding one struct
Tagged(name, tag, variants) ==
    [k |-> "tagged", name |-> name, tag |-> tag, variants |-> variants]
TaggedVariant(wire_name, name, ty) == [wire |-> wire_name, name |-> name, ty |-> ty]

UuidTexts ==
    { "123e4567-e89b-12d3-a456-426614174000",
      "123e4567-e89b-12d3-a456-426614174001" }

DateTimeTexts == { "2025-01-18T12:00:00Z" }

ErrorResponse_wide ==
    Struct("ErrorResponse",
           << Field("statusCode", "status_code", I64),
              Field("message", "message", String) >>)

ErrorResponse ==
    Struct("ErrorResponse",
           << Field("statusCode", "status_code", U16),
              Field("message", "message", String) >>)

ApplicationInfo ==
    Struct("ApplicationInfo",
           << Field("applicationVersion", "application_version", String) >>)

SiteOverview ==
    Struct("SiteOverview",
           << Field("id", "id", Uuid),
              Field("name", "name", Option(String)) >>)

Page_counts_total(ty) ==
    Struct("Page",
           << Field("offset", "offset", I32),
              Field("limit", "limit", I32),
              Field("totalCount", "count", I32),
              Field("totalCount", "total_count", I32),
              Field("data", "data", Vec(ty)) >>)

Page(ty) ==
    Struct("Page",
           << Field("offset", "offset", I32),
              Field("limit", "limit", I32),
              Field("count", "count", I32),
              Field("totalCount", "total_count", I32),
              Field("data", "data", Vec(ty)) >>)

DeviceState ==
    Enum("DeviceState",
         << Variant("ONLINE", "Online"),
            Variant("OFFLINE", "Offline"),
            Variant("PENDINGADOPTION", "PendingAdoption"),
            Variant("UPDATING", "Updating"),
            Variant("GETTINGREADY", "GettingReady"),
            Variant("ADOPTING", "Adopting"),
            Variant("DELETING", "Deleting"),
            Variant("CONNECTIONINTERRUPTED", "ConnectionInterrupted"),
            Variant("ISOLATED", "Isolated") >>)

DeviceOverview ==
    Struct("DeviceOverview",
           << Field("id", "id", Uuid),
              Field("name", "name", String),
              Field("model", "model", String),
              Field("macAddress", "mac_address", String),
              Field("ipAddress", "ip_address", String),
              Field("state", "state", DeviceState),
              Field("features", "features", Vec(String)),
              Field("interfaces", "interfaces", Vec(String)) >>)

PortState ==
    Enum("PortState",
         << Variant("UP", "Up"), Variant("DOWN", "Down"), Variant("UNKNOWN", "Unknown") >>)

ConnectorType ==
    Enum("ConnectorType",
         << Variant("RJ45", "RJ45"),
            Variant("SFP", "SFP"),
            Variant("SFPPLUS", "SFPPLUS"),
            Variant("SFP28", "SFP28"),
            Variant("QSFP28", "QSFP28") >>)

WlanStandard ==
    Enum("WlanStandard",
         << Variant("802.11a", "IEEE802_11A"),
            Variant("802.11b", "IEEE802_11B"),
            Variant("802.11g", "IEEE802_11G"),
            Variant("802.11n", "IEEE802_11N"),
            Variant("802.11ac", "IEEE802_11AC"),
            Variant("802.11ax", "IEEE802_11AX"),
            Variant("802.11be", "IEEE802_11BE") >>)

FrequencyBand == [k |-> "FrequencyBand"]

EthernetPortOverview ==
    Struct("EthernetPortOverview",
           << Field("idx", "idx", I32),
              Field("state", "state", PortState),
              Field("connector", "connector", ConnectorType),
              Field("maxSpeedMbps", "max_speed_mbps", I32),
              Field("speedMbps", "speed_mbps", I32) >>)

WirelessRadioOverview ==
    Struct("WirelessRadioOverview",
           << Field("wlanStandard", "wlan_standard", Option(WlanStandard)),
              FieldDefault("frequencyGHz", "frequency_ghz", Option(FrequencyBand)),
              FieldDefault("channelWidthMHz", "channel_width_mhz", Option(I32)),
              Field("channel", "channel", Option(I32)) >>)

DevicePhysicalInterfaces ==
    Struct("DevicePhysicalInterfaces",
           << FieldDefault("ports", "ports", Vec(EthernetPortOverview)),
              FieldDefault("radios", "radios", Vec(WirelessRadioOverview)) >>)

DeviceUplinkInterface ==
    Struct("DeviceUplinkInterface", << Field("deviceId", "device_id", Uuid) >>)

SwitchFeatureOverview == Struct("SwitchFeatureOverview", << >>)

AccessPointFeatureOverview == Struct("AccessPointFeatureOverview", << >>)

DeviceFeatures ==
    Struct("DeviceFeatures",
           << Field("switching", "switching", Option(SwitchFeatureOverview)),
              Field("accessPoint", "access_point", Option(AccessPointFeatureOverview)) >>)

DeviceDetails_strict ==
    Struct("DeviceDetails",
           << Field("id", "id", Uuid),
              Field("name", "name", String),
              Field("model", "model", String),
              Field("supported", "supported", Bool),
              Field("macAddress", "mac_address", String),
              Field("ipAddress", "ip_address", String),
              Field("state", "state", DeviceState),
              Field("firmwareVersion", "firmware_version", String),
              Field("firmwareUpdatable", "firmware_updatable", Bool),
              Field("adoptedAt", "adopted_at", DateTime),
              Field("provisionedAt", "provisioned_at", DateTime),
              Field("configurationId", "configuration_id", String),
              Field("uplink", "uplink", DeviceUplinkInterface),
              Field("features", "features", DeviceFeatures),
              Field("interfaces", "interfaces", DevicePhysicalInterfaces) >>)

DeviceDetails ==
    Struct("DeviceDetails",
           << Field("id", "id", Uuid),
              Field("name", "name", String),
              Field("model", "model", String),
              Field("supported", "supported", Bool),
              Field("macAddress", "mac_address", String),
              Field("ipAddress", "ip_address", String),
              Field("state", "state", DeviceState),
              Field("firmwareVersion", "firmware_version", String),
              Field("firmwareUpdatable", "firmware_updatable", Bool),
              Field("adoptedAt", "adopted_at", Option(DateTime)),
              Field("provisionedAt", "provisioned_at", Option(DateTime)),
              Field("configurationId", "configuration_id", String),
              FieldDefault("uplink", "uplink", Option(DeviceUplinkInterface)),
              FieldDefault("features", "features", Option(DeviceFeatures)),
              FieldDefault("interfaces", "interfaces", Option(DevicePhysicalInterfaces)) >>)

DeviceUplinkStatistics ==
    Struct("DeviceUplinkStatistics",
           << Field("txRateBps", "tx_rate_bps", I64),
              Field("rxRateBps", "rx_rate_bps", I64) >>)

WirelessRadioStatistics ==
    Struct("WirelessRadioStatistics",
           << FieldDefault("frequencyGHz", "frequency_ghz", Option(FrequencyBand)),
              Field("txRetriesPct", "tx_retries_pct", Option(F64)) >>)

DeviceInterfaceStatistics ==
    Struct("DeviceInterfaceStatistics",
           << FieldDefault("radios", "radios", Vec(WirelessRadioStatistics)) >>)

DeviceStatistics ==
    Struct("DeviceStatistics",
           << Field("uptimeSec", "uptime_sec", I64),
              Field("lastHeartbeatAt", "last_heartbeat_at", DateTime),
              Field("nextHeartbeatAt", "next_heartbeat_at", DateTime),
              FieldDefault("loadAverage1Min", "load_average_1min", Option(F64)),
              FieldDefault("loadAverage5Min", "load_average_5min", Option(F64)),
              FieldDefault("loadAverage15Min", "load_average_15min", Option(F64)),
              Field("cpuUtilizationPct", "cpu_utilization_pct", Option(F64)),
              Field("memoryUtilizationPct", "memory_utilization_pct", Option(F64)),
              FieldDefault("uplink", "uplink", Option(DeviceUplinkStatistics)),
              FieldDefault("interfaces", "interfaces", Option(DeviceInterfaceStatistics)) >>)

BaseClientOverview ==
    Struct("BaseClientOverview",
           << Field("id", "id", Uuid),
              Field("name", "name", Option(String)),
              Field("connectedAt", "connected_at", DateTime),
              FieldDefault("ipAddress", "ip_address", Option(String)) >>)

WiredClientOverview_optional_mac ==
    Struct("WiredClientOverview",
           << FieldFlatten("base", BaseClientOverview),
              Field("macAddress", "mac_address", Option(String)),
              Field("uplinkDeviceId", "uplink_device_id", Option(Uuid)) >>)

WiredClientOverview ==
    Struct("WiredClientOverview",
           << FieldFlatten("base", BaseClientOverview),
              Field("macAddress", "mac_address", String),
              Field("uplinkDeviceId", "uplink_device_id", Uuid) >>)

WirelessClientOverview ==
    Struct("WirelessClientOverview",
           << FieldFlatten("base", BaseClientOverview),
              Field("macAddress", "mac_address", String),
              Field("uplinkDeviceId", "uplink_device_id", Uuid) >>)

VpnClientOverview ==
    Struct("VpnClientOverview", << FieldFlatten("base", BaseClientOverview) >>)

TeleportClientOverview_with_mac ==
    Struct("TeleportClientOverview",
           << FieldFlatten("base", BaseClientOverview),
              Field("macAddress", "mac_address", String),
              Field("uplinkDeviceId", "uplink_device_id", Uuid) >>)

TeleportClientOverview ==
    Struct("TeleportClientOverview", << FieldFlatten("base", BaseClientOverview) >>)

ClientOverview ==
    Tagged("ClientOverview", "type",
           << TaggedVariant("WIRED", "Wired", WiredClientOverview),
              TaggedVariant("WIRELESS", "Wireless", WirelessClientOverview),
              TaggedVariant("VPN", "Vpn", VpnClientOverview),
              TaggedVariant("TELEPORT", "Teleport", TeleportClientOverview) >>)

----------------------------------------------------------------------------
(* Deserialization: serde's derived implementations over serde_json *)

Fail == [ok |-> FALSE]

visit_str(value) ==
    CASE value = "2.4" -> Ok("Band2_4GHz")
      [] value = "5" -> Ok("Band5GHz")
      [] value = "6" -> Ok("Band6GHz")
      [] value = "60" -> Ok("Band60GHz")
      [] OTHER -> Fail

\* the f64 is held in tenths: 2.4 is 24
visit_f64(tenths) ==
    CASE tenths = 24 -> Ok("Band2_4GHz")
      [] tenths = 50 -> Ok("Band5GHz")
      [] tenths = 60 -> Ok("Band6GHz")
      [] tenths = 600 -> Ok("Band60GHz")
      [] OTHER -> Fail

visit_i64(value) ==
    CASE value = 5 -> Ok("Band5GHz")
      [] value = 6 -> Ok("Band6GHz")
      [] value = 60 -> Ok("Band60GHz")
      [] OTHER -> Fail

visit_u64(value) ==
    CASE value = 5 -> Ok("Band5GHz")
      [] value = 6 -> Ok("Band6GHz")
      [] value = 60 -> Ok("Band60GHz")
      [] OTHER -> Fail

\* deserialize_any hands the visitor the shape the document has
DeserializeFrequencyBand(j) ==
    CASE j.t = "str" -> visit_str(j.s)
      [] j.t = "float" -> visit_f64(j.tenths)
      [] j.t = "num" -> IF j.n >= 0 THEN visit_u64(j.n) ELSE visit_i64(j.n)
      [] OTHER -> Fail

\* what a field with #[serde(default)] takes when it is absent
DefaultOf(ty) == IF ty.k = "vec" THEN << >> ELSE None

FieldNames(fields) == { fields[i].name : i \in DOMAIN fields }
FieldIndex(fields, name) == CHOOSE i \in DOMAIN fields : fields[i].name = name
HasFlatten(fields) == \E i \in DOMAIN fields : fields[i].flatten

RECURSIVE Decode(_, _)
RECURSIVE DecodeField(_, _)
RECURSIVE DecodeElement(_, _, _)

\* one field of a struct read from a JSON object
DecodeField(fld, obj) ==
    IF fld.flatten THEN Decode(fld.ty, JObj(obj))
    ELSE IF fld.wire \in DOMAIN obj THEN Decode(fld.ty, obj[fld.wire])
    ELSE IF fld.default THEN Ok(DefaultOf(fld.ty))
    ELSE IF fld.ty.k = "opt" THEN Ok(None)
    ELSE Fail

\* one field of a struct read from a JSON array, by position
DecodeElement(fld, arr, i) ==
    IF i <= Len(arr) THEN Decode(fld.ty, arr[i])
    ELSE IF fld.default THEN Ok(DefaultOf(fld.ty))
    ELSE Fail

Decode(ty, j) ==
    CASE ty.k = "u16" ->
            IF j.t = "num" /\ j.n >= 0 /\ j.n <= U16Max THEN Ok(j.n) ELSE Fail
      [] ty.k = "i32" ->
            IF j.t = "num" /\ j.n >= -I32Max - 1 /\ j.n <= I32Max THEN Ok(j.n) ELSE Fail
      [] ty.k = "i64" -> IF j.t = "num" THEN Ok(j.n) ELSE Fail
      [] ty.k = "f64" ->
            IF j.t = "num" THEN Ok(j.n * 10)
            ELSE IF j.t = "float" THEN Ok(j.tenths) ELSE Fail
      [] ty.k = "bool" -> IF j.t = "bool" THEN Ok(j.b) ELSE Fail
      [] ty.k = "String" -> IF j.t = "str" THEN Ok(j.s) ELSE Fail
      [] ty.k = "Uuid" -> IF j.t = "str" /\ j.s \in UuidTexts THEN Ok(j.s) ELSE Fail
      [] ty.k = "DateTime" ->
            IF j.t = "str" /\ j.s \in DateTimeTexts THEN Ok(j.s) ELSE Fail
      [] ty.k = "unit" -> IF j.t = "null" THEN Ok("()") ELSE Fail
      [] ty.k = "FrequencyBand" -> DeserializeFrequencyBand(j)
      [] ty.k = "opt" ->
            IF j.t = "null" THEN Ok(None)
            ELSE LET r == Decode(ty.of, j) IN IF r.ok THEN Ok(Some(r.v)) ELSE Fail
      [] ty.k = "vec" ->
            IF j.t = "arr" /\ \A i \in DOMAIN j.a : Decode(ty.of, j.a[i]).ok
            THEN Ok([i \in DOMAIN j.a |-> Decode(ty.of, j.a[i]).v])
            ELSE Fail
      [] ty.k = "enum" ->
            IF j.t = "str" /\ \E i \in DOMAIN ty.variants : ty.variants[i].wire = j.s
            THEN Ok(ty.variants[CHOOSE i \in DOMAIN ty.variants :
                                    ty.variants[i].wire = j.s].name)
            ELSE Fail
      [] ty.k = "tagged" ->
            IF j.t = "obj" /\ ty.tag \in DOMAIN j.f /\ j.f[ty.tag].t = "str"
               /\ \E i \in DOMAIN ty.variants : ty.variants[i].wire = j.f[ty.tag].s
            THEN LET var == ty.variants[CHOOSE i \in DOMAIN ty.variants :
                                            ty.variants[i].wire = j.f[ty.tag].s]
                     rest == [n \in DOMAIN j.f \ {ty.tag} |-> j.f[n]]
                     r == Decode(var.ty, JObj(rest))
                 IN  IF r.ok THEN Ok([variant |-> var.name, v |-> r.v]) ELSE Fail
            ELSE Fail
      [] ty.k = "struct" ->
            IF j.t = "obj"
            THEN IF \A i \in DOMAIN ty.fields : DecodeField(ty.fields[i], j.f).ok
                 THEN Ok([n \in FieldNames(ty.fields) |->
                            DecodeField(ty.fields[FieldIndex(ty.fields, n)], j.f).v])
                 ELSE Fail
            ELSE IF j.t = "arr" /\ ~HasFlatten(ty.fields)
            THEN IF /\ Len(j.a) <= Len(ty.fields)
                    /\ \A i \in DOMAIN ty.fields : DecodeElement(ty.fields[i], j.a, i).ok
                 THEN Ok([n \in FieldNames(ty.fields) |->
                            DecodeElement(ty.fields[FieldIndex(ty.fields, n)], j.a,
                                          FieldIndex(ty.fields, n)).v])
                 ELSE Fail
            ELSE Fail
      [] OTHER -> Fail

\* serde_json::from_slice: the bytes must be a JSON document of the type
from_slice(ty, body) == IF body.t = "malformed" THEN Fail ELSE Decode(ty, body)

----------------------------------------------------------------------------
(* Inputs *)

\* base URLs, as tokens: one that parses, one without a scheme, the empty string
UrlExample == << "https:", "//", "example.com" >>
UrlNoScheme == << "example.com" >>
UrlEmpty == << >>
BaseUrls == { UrlExample, UrlNoScheme, UrlEmpty }

Schemes == { "https:", "http:" }
Hosts == { "example.com" }

\* API keys, as bytes: "test-key", the empty string, "k\n"
KeyTest == << 116, 101, 115, 116, 45, 107, 101, 121 >>
KeyEmpty == << >>
KeyNewline == << 107, 10 >>
ApiKeys == { KeyTest, KeyEmpty, KeyNewline }

SiteIds == UuidTexts
DeviceIds == UuidTexts
Offsets == { None } \cup { Some(n) : n \in -1 .. MaxOffset }
Limits == { None } \cup { Some(n) : n \in 0 .. MaxLimit }

\* HTTP statuses a response can carry
Statuses == { 101, 200, 299, 300, 401, 500 }

Operations ==
    { "list_sites", "list_devices", "get_device_details", "get_device_statistics",
      "restart_device", "get_info", "list_clients" }

----------------------------------------------------------------------------
(* Response bodies *)

Uuid0 == "123e4567-e89b-12d3-a456-426614174000"
Uuid1 == "123e4567-e89b-12d3-a456-426614174001"

EnvelopeUnauthorized ==
    JObj([statusCode |-> JNum(401), message |-> JStr("Unauthorized access")])
EnvelopeOutOfRange ==
    JObj([statusCode |-> JNum(70000), message |-> JStr("Unauthorized access")])
EnvelopeNoMessage == JObj([statusCode |-> JNum(404)])
\* an envelope whose statusCode is below zero
EnvelopeNegative == JObj([statusCode |-> JNum(-1), message |-> JStr("Unauthorized access")])
\* an envelope whose statusCode is not the status of the response it arrives in
EnvelopeStatusOk == JObj([statusCode |-> JNum(200), message |-> JStr("OK")])

PageBody(items) ==
    JObj([offset |-> JNum(0), limit |-> JNum(25), count |-> JNum(Len(items)),
          totalCount |-> JNum(Len(items)), data |-> JArr(items)])

SiteBody == JObj([id |-> JStr(Uuid0), name |-> JStr("Default")])

\* a page whose count is not the number of its items
PageMiscounted ==
    JObj([offset |-> JNum(0), limit |-> JNum(25), count |-> JNum(2),
          totalCount |-> JNum(1), data |-> JArr(<< SiteBody >>)])

DeviceBody ==
    JObj([id |-> JStr(Uuid0), name |-> JStr("Test Device"), model |-> JStr("UHDIW"),
          macAddress |-> JStr("00:11:22:33:44:55"), ipAddress |-> JStr("192.168.1.1"),
          state |-> JStr("ONLINE"), features |-> JArr(<< JStr("switching") >>),
          interfaces |-> JArr(<< JStr("ports") >>)])

DetailsBody ==
    JObj([id |-> JStr(Uuid0), name |-> JStr("Test Device"), model |-> JStr("UHDIW"),
          supported |-> JBool(TRUE), macAddress |-> JStr("00:11:22:33:44:55"),
          ipAddress |-> JStr("192.168.1.1"), state |-> JStr("ONLINE"),
          firmwareVersion |-> JStr("6.6.55"), firmwareUpdatable |-> JBool(TRUE),
          adoptedAt |-> JStr("2025-01-18T12:00:00Z"),
          provisionedAt |-> JStr("2025-01-18T12:00:00Z"),
          configurationId |-> JStr("test123"),
          uplink |-> JObj([deviceId |-> JStr(Uuid1)]),
          features |-> JObj(<< >>),
          interfaces |-> JObj([ports |-> JArr(<< >>), radios |-> JArr(<< >>)])])

StatisticsBody ==
    JObj([uptimeSec |-> JNum(737201),
          lastHeartbeatAt |-> JStr("2025-01-18T12:00:00Z"),
          nextHeartbeatAt |-> JStr("2025-01-18T12:00:00Z"),
          loadAverage1Min |-> JFloat(16),
          cpuUtilizationPct |-> JFloat(308),
          uplink |-> JObj([txRateBps |-> JNum(309720), rxRateBps |-> JNum(32288)]),
          interfaces |-> JObj([radios |-> JArr(<<
              JObj([frequencyGHz |-> JFloat(24), txRetriesPct |-> JFloat(143)]),
              JObj([frequencyGHz |-> JNum(5), txRetriesPct |-> JNum(0)]) >>)])])

InfoBody == JObj([applicationVersion |-> JStr("9.0.108")])

WiredBody ==
    JObj([type |-> JStr("WIRED"), id |-> JStr(Uuid0), name |-> JStr("Desktop PC"),
          connectedAt |-> JStr("2025-01-18T12:00:00Z"),
          ipAddress |-> JStr("192.168.1.100"),
          macAddress |-> JStr("00:11:22:33:44:55"),
          uplinkDeviceId |-> JStr(Uuid1)])

\* pages whose first item is sound and whose second is not: a device in a state that
\* is not one of the nine, a client of a type that is not one of the four
PageOneBadDevice == PageBody(<< DeviceBody, With(DeviceBody, "state", JStr("REBOOTING")) >>)
PageOneBadClient == PageBody(<< WiredBody, With(WiredBody, "type", JStr("GUEST")) >>)

Bodies ==
    { Malformed, EnvelopeUnauthorized, EnvelopeOutOfRange, EnvelopeNoMessage,
      EnvelopeStatusOk, EnvelopeNegative, PageMiscounted, PageOneBadDevice,
      PageOneBadClient,
      PageBody(<< >>), PageBody(<< SiteBody >>), PageBody(<< DeviceBody >>),
      PageBody(<< WiredBody >>), DetailsBody, StatisticsBody, InfoBody }

----------------------------------------------------------------------------
(* The transport's own checks (http, url, reqwest) on what the code hands it *)

\* HeaderValue::from_str: every byte is visible ASCII, a space or a tab
is_visible_ascii(b) == (b >= 32 /\ b < 127) \/ b = 9
HeaderValue_from_str(src) ==
    IF \A i \in DOMAIN src : is_visible_ascii(src[i])
    THEN Ok(src)
    ELSE Err("failed to parse header value")

\* IntoUrl: the string parses as an absolute URL that has a host
IntoUrl(url) ==
    /\ Len(url) >= 3
    /\ url[1] \in Schemes
    /\ url[2] = "//"
    /\ url[3] \in Hosts

\* (mutant) every status below 400 counts as a success
is_success_with_redirects(status) == 400 > status /\ status >= 200

\* StatusCode::is_success
is_success(status) == 300 > status /\ status >= 200

----------------------------------------------------------------------------
(* UnifiClientBuilder *)

new(base_url) == [base_url |-> base_url, api_key |-> None, verify_ssl |-> TRUE]

\* (mutant) a missing key is taken as the empty key
require_api_key_or_empty(self) ==
    IF self.api_key = None THEN Ok(KeyEmpty) ELSE Ok(unwrap(self.api_key))

\* self.api_key.ok_or_else(..)
require_api_key(self) ==
    IF self.api_key = None
    THEN Err(Config("API key is required"))
    ELSE Ok(unwrap(self.api_key))

\* (mutant) the header error is passed on as a transport error
header_value_as_http(key) ==
    LET value == HeaderValue_from_str(key)
    IN  IF value.ok THEN Ok(value.v) ELSE Err(Http("Builder"))

\* header::HeaderValue::from_str(&api_key).map_err(..)
header_value(key) ==
    LET value == HeaderValue_from_str(key)
    IN  IF value.ok THEN Ok(value.v) ELSE Err(Config(value.e))

\* ClientBuilder::new().default_headers(..).danger_accept_invalid_certs(..).build()
\* fails when reqwest cannot set up its transport; `?` turns that into UnifiError::Http
reqwest_client(headers, verify, can_build) ==
    IF can_build
    THEN Ok([default_headers |-> headers, accept_invalid_certs |-> ~verify])
    ELSE Err(Http("Builder"))

\* (mutant) build() also refuses a base URL that does not parse
build_result_checks_url(self, can_build) ==
    LET key == require_api_key(self)
    IN  IF ~key.ok THEN key
        ELSE LET value == header_value(key.v)
             IN  IF ~value.ok THEN value
                 ELSE IF ~IntoUrl(self.base_url) THEN Err(Url("RelativeUrlWithoutBase"))
                 ELSE LET client ==
                              reqwest_client(<< [name |-> "X-API-KEY", value |-> value.v] >>,
                                             self.verify_ssl, can_build)
                      IN  IF ~client.ok THEN client
                          ELSE Ok([client |-> client.v, base_url |-> self.base_url])

\* what build() returns
build_result(self, can_build) ==
    LET key == require_api_key(self)
    IN  IF ~key.ok THEN key
        ELSE LET value == header_value(key.v)
             IN  IF ~value.ok THEN value
                 ELSE LET client ==
                              reqwest_client(<< [name |-> "X-API-KEY", value |-> value.v] >>,
                                             self.verify_ssl, can_build)
                      IN  IF ~client.ok THEN client
                          ELSE Ok([client |-> client.v, base_url |-> self.base_url])

api_key(key) ==
    /\ phase = "builder"
    /\ builder' = [builder EXCEPT !.api_key = Some(key)]
    /\ UNCHANGED <<phase, built, call, wire, transport_ok, server, test>>

verify_ssl(verify) ==
    /\ phase = "builder"
    /\ builder' = [builder EXCEPT !.verify_ssl = verify]
    /\ UNCHANGED <<phase, built, call, wire, transport_ok, server, test>>

\* (mutant) build() checks the key against the controller before it returns
build_probes ==
    /\ phase = "builder"
    /\ phase' = "built"
    /\ built' = Some(build_result(builder, transport_ok))
    /\ wire' = [wire EXCEPT ![1] = Append(@, [method |-> "GET",
                                              url |-> builder.base_url \o << "/v1/info" >>,
                                              query |-> << >>, headers |-> << >>,
                                              json |-> None])]
    /\ UNCHANGED <<builder, call, transport_ok, server, test>>

build ==
    /\ phase = "builder"
    /\ phase' = "built"
    /\ built' = Some(build_result(builder, transport_ok))
    /\ UNCHANGED <<builder, call, wire, transport_ok, server, test>>

----------------------------------------------------------------------------
(* UnifiClient *)

CallIds == { 1, 2 }

NoArgs == [site_id |-> None, device_id |-> None, offset |-> None, limit |-> None]

Idle ==
    [pc |-> "idle", op |-> "", args |-> NoArgs, url |-> << >>, status |-> None,
     body_read |-> FALSE, body |-> None, decoded |-> None, result |-> None]

HasClient == phase = "built" /\ built # None /\ unwrap(built).ok
TheClient == unwrap(built).v

\* the type an operation decodes a success body as
ResultType(op) ==
    CASE op = "list_sites" -> Page(SiteOverview)
      [] op = "list_devices" -> Page(DeviceOverview)
      [] op = "get_device_details" -> DeviceDetails
      [] op = "get_device_statistics" -> DeviceStatistics
      [] op = "get_info" -> ApplicationInfo
      [] op = "list_clients" -> Page(ClientOverview)
      [] op = "restart_device" -> Unit

\* (mutant) the limit is sent only when the caller gave an offset
PageQuery_limit_follows_offset(offset, limit) ==
    IF offset = None
    THEN << [k |-> "offset", v |-> DefaultOffset] >>
    ELSE << [k |-> "offset", v |-> unwrap(offset)],
            [k |-> "limit", v |-> unwrap_or(limit, DefaultLimit)] >>

\* (mutant) every page is asked for from the start of the collection
PageQuery_ignores_offset(offset, limit) ==
    << [k |-> "offset", v |-> DefaultOffset],
       [k |-> "limit", v |-> unwrap_or(limit, DefaultLimit)] >>

\* the query of the three list operations
PageQuery(offset, limit) ==
    << [k |-> "offset", v |-> unwrap_or(offset, DefaultOffset)],
       [k |-> "limit", v |-> unwrap_or(limit, DefaultLimit)] >>

DeviceAction == JObj([action |-> JStr("RESTART")])

\* (mutant) the request is built on a client without default headers
Request_without_headers(client, method, url, query, json) ==
    [method |-> method, url |-> url, query |-> query, headers |-> << >>, json |-> json]

\* RequestBuilder: a request on the client, with its default headers
Request(client, method, url, query, json) ==
    [method |-> method, url |-> url, query |-> query,
     headers |-> client.client.default_headers, json |-> json]

\* .send(): an operation begins; a URL that reqwest cannot take ends it at once,
\* any other request goes to the transport and the operation awaits the response
Begin(c, op, args, request) ==
    /\ HasClient
    /\ call[c].pc = "idle"
    /\ IF IntoUrl(request.url)
       THEN /\ wire' = [wire EXCEPT ![c] = Append(@, request)]
            /\ call' = [call EXCEPT ![c] =
                            [Idle EXCEPT !.pc = "send", !.op = op, !.args = args,
                                         !.url = request.url]]
       ELSE /\ wire' = wire
            /\ call' = [call EXCEPT ![c] =
                            [Idle EXCEPT !.pc = "done", !.op = op, !.args = args,
                                         !.url = request.url,
                                         !.result = Some(Err(Http("Builder")))]]
    /\ UNCHANGED <<phase, builder, built, transport_ok, server, test>>

list_sites(c, offset, limit) ==
    /\ HasClient
    /\ LET url == TheClient.base_url \o << "/v1/sites" >>
       IN  Begin(c, "list_sites",
                 [NoArgs EXCEPT !.offset = offset, !.limit = limit],
                 Request(TheClient, "GET", url, PageQuery(offset, limit), None))

list_devices(c, site_id, offset, limit) ==
    /\ HasClient
    /\ LET url == TheClient.base_url \o << "/v1/sites/", site_id, "/devices" >>
       IN  Begin(c, "list_devices",
                 [NoArgs EXCEPT !.site_id = Some(site_id), !.offset = offset,
                                !.limit = limit],
                 Request(TheClient, "GET", url, PageQuery(offset, limit), None))

get_device_details(c, site_id, device_id) ==
    /\ HasClient
    /\ LET url == TheClient.base_url
                     \o << "/v1/sites/", site_id, "/devices/", device_id >>
       IN  Begin(c, "get_device_details",
                 [NoArgs EXCEPT !.site_id = Some(site_id),
                                !.device_id = Some(device_id)],
                 Request(TheClient, "GET", url, << >>, None))

\* (mutant) the statistics are asked for at the device's own path
get_device_statistics_at_device(c, site_id, device_id) ==
    /\ HasClient
    /\ LET url == TheClient.base_url
                     \o << "/v1/sites/", site_id, "/devices/", device_id, "/statistics" >>
       IN  Begin(c, "get_device_statistics",
                 [NoArgs EXCEPT !.site_id = Some(site_id),
                                !.device_id = Some(device_id)],
                 Request(TheClient, "GET", url, << >>, None))

get_device_statistics(c, site_id, device_id) ==
    /\ HasClient
    /\ LET url == TheClient.base_url
                     \o << "/v1/sites/", site_id, "/devices/", device_id,
                           "/statistics/latest" >>
       IN  Begin(c, "get_device_statistics",
                 [NoArgs EXCEPT !.site_id = Some(site_id),
                                !.device_id = Some(device_id)],
                 Request(TheClient, "GET", url, << >>, None))

restart_device(c, site_id, device_id) ==
    /\ HasClient
    /\ LET url == TheClient.base_url
                     \o << "/v1/sites/", site_id, "/devices/", device_id, "/actions" >>
       IN  Begin(c, "restart_device",
                 [NoArgs EXCEPT !.site_id = Some(site_id),
                                !.device_id = Some(device_id)],
                 Request(TheClient, "POST", url, << >>, Some(DeviceAction)))

get_info(c) ==
    /\ HasClient
    /\ LET url == TheClient.base_url \o << "/v1/info" >>
       IN  Begin(c, "get_info", NoArgs, Request(TheClient, "GET", url, << >>, None))

list_clients(c, site_id, offset, limit) ==
    /\ HasClient
    /\ LET url == TheClient.base_url \o << "/v1/sites/", site_id, "/clients" >>
       IN  Begin(c, "list_clients",
                 [NoArgs EXCEPT !.site_id = Some(site_id), !.offset = offset,
                                !.limit = limit],
                 Request(TheClient, "GET", url, PageQuery(offset, limit), None))

\* (mutant) restart_device decodes the body of a success response like the others
StatusOutcome_reads_body(op, status) == None

\* what the operation returns once the response's status is known and its body is not
\* needed: only restart_device on a success status
StatusOutcome(op, status) ==
    IF op = "restart_device" /\ is_success(status) THEN Some(Ok("()")) ELSE None

\* (mutant) the API error reports the status of the HTTP status line
BodyOutcome_http_status(op, status, body) ==
    IF is_success(status)
    THEN LET value == from_slice(ResultType(op), body)
         IN  IF value.ok THEN Ok(value.v) ELSE Err(Http("Decode"))
    ELSE LET error == from_slice(ErrorResponse, body)
         IN  IF error.ok
             THEN Err(Api(status, error.v.message))
             ELSE Err(Http("Decode"))

\* (mutant) an error body that is no envelope is swallowed into an API error
BodyOutcome_swallows_envelope(op, status, body) ==
    IF is_success(status)
    THEN LET value == from_slice(ResultType(op), body)
         IN  IF value.ok THEN Ok(value.v) ELSE Err(Http("Decode"))
    ELSE LET error == from_slice(ErrorResponse, body)
         IN  IF error.ok
             THEN Err(Api(error.v.status_code, error.v.message))
             ELSE Err(Api(status, ""))

\* (mutant) a success body that is not of the result type is tried as an envelope
BodyOutcome_falls_back(op, status, body) ==
    LET error == from_slice(ErrorResponse, body)
    IN  IF is_success(status) /\ from_slice(ResultType(op), body).ok
        THEN Ok(from_slice(ResultType(op), body).v)
        ELSE IF error.ok
        THEN Err(Api(error.v.status_code, error.v.message))
        ELSE IF is_success(status) THEN Err(Api(status, "")) ELSE Err(Http("Decode"))

\* (mutant) a success body that is not of the result type yields what was decoded
BodyOutcome_partial(op, status, body) ==
    IF is_success(status)
    THEN LET value == from_slice(ResultType(op), body)
         IN  IF value.ok THEN Ok(value.v) ELSE Ok(<< >>)
    ELSE LET error == from_slice(ErrorResponse, body)
         IN  IF error.ok
             THEN Err(Api(error.v.status_code, error.v.message))
             ELSE Err(Http("Decode"))

\* (mutant) a page with items that do not decode is returned with the items that do
BodyOutcome_keeps_good_items(op, status, body) ==
    IF is_success(status)
    THEN LET value == from_slice(ResultType(op), body)
             lenient ==
                 from_slice(ResultType(op),
                            With(body, "data",
                                 JArr(SelectSeq(body.f.data.a,
                                        LAMBDA item :
                                            Decode(ResultType(op).fields[5].ty.of,
                                                   item).ok))))
         IN  IF value.ok THEN Ok(value.v)
             ELSE IF /\ op \in { "list_sites", "list_devices", "list_clients" }
                     /\ body.t = "obj"
                     /\ "data" \in DOMAIN body.f
                     /\ body.f.data.t = "arr"
                     /\ lenient.ok
                  THEN Ok(lenient.v)
                  ELSE Err(Http("Decode"))
    ELSE LET error == from_slice(ErrorResponse, body)
         IN  IF error.ok THEN Err(Api(error.v.status_code, error.v.message))
             ELSE Err(Http("Decode"))

\* response.json(): the body decoded as the type the branch asks for
BodyOutcome(op, status, body) ==
    IF is_success(status)
    THEN LET value == from_slice(ResultType(op), body)
         IN  IF value.ok THEN Ok(value.v) ELSE Err(Http("Decode"))
    ELSE LET error == from_slice(ErrorResponse, body)
         IN  IF error.ok
             THEN Err(Api(error.v.status_code, error.v.message))
             ELSE Err(Http("Decode"))

\* the type response.json() is asked for
DecodedAs(op, status) ==
    IF is_success(status) THEN ResultType(op).name ELSE ErrorResponse.name

\* (mutant) a request that failed in the transport is sent again
SendFailed_retries(c) ==
    /\ call[c].pc = "send"
    /\ wire' = [wire EXCEPT ![c] = Append(@, @[1])]
    /\ UNCHANGED <<phase, builder, built, call, transport_ok, server, test>>

\* (mutant) a request that failed in the transport is reported as an API error
SendFailed_as_api(c) ==
    /\ call[c].pc = "send"
    /\ call' = [call EXCEPT ![c].pc = "done",
                            ![c].result = Some(Err(Api(0, "")))]
    /\ UNCHANGED <<phase, builder, built, wire, transport_ok, server, test>>

\* .send().await? fails: no response arrived
SendFailed(c) ==
    /\ call[c].pc = "send"
    /\ call' = [call EXCEPT ![c].pc = "done",
                            ![c].result = Some(Err(Http("Request")))]
    /\ UNCHANGED <<phase, builder, built, wire, transport_ok, server, test>>

\* (mutant) the response is kept in a slot that every invocation in flight reads
ResponseReceived_shared(c, status) ==
    /\ call[c].pc = "send"
    /\ call' = [d \in CallIds |->
                  IF call[d].pc = "send"
                  THEN LET outcome == StatusOutcome(call[d].op, status)
                       IN  [call[d] EXCEPT !.status = Some(status),
                                           !.pc = IF outcome = None THEN "json" ELSE "done",
                                           !.result = outcome]
                  ELSE call[d]]
    /\ UNCHANGED <<phase, builder, built, wire, transport_ok, server, test>>

\* .send().await? yields a response: the status decides the branch
ResponseReceived(c, status) ==
    /\ call[c].pc = "send"
    /\ LET outcome == StatusOutcome(call[c].op, status)
       IN  call' = [call EXCEPT ![c].status = Some(status),
                                ![c].pc = IF outcome = None THEN "json" ELSE "done",
                                ![c].result = outcome]
    /\ UNCHANGED <<phase, builder, built, wire, transport_ok, server, test>>

\* (mutant) a body that cannot be read makes the operation send its request again
BodyFailed_retries(c) ==
    /\ call[c].pc = "json"
    /\ call' = [call EXCEPT ![c].pc = "send", ![c].status = None]
    /\ UNCHANGED <<phase, builder, built, wire, transport_ok, server, test>>

\* response.json().await? cannot read the body
BodyFailed(c) ==
    /\ call[c].pc = "json"
    /\ call' = [call EXCEPT ![c].pc = "done",
                            ![c].result = Some(Err(Http("Body")))]
    /\ UNCHANGED <<phase, builder, built, wire, transport_ok, server, test>>

\* response.json().await? has the whole body and decodes it
BodyReceived(c, body) ==
    /\ call[c].pc = "json"
    /\ LET status == unwrap(call[c].status)
       IN  call' = [call EXCEPT
                       ![c].pc = "done",
                       ![c].body_read = TRUE,
                       ![c].body = Some(body),
                       ![c].decoded = Some(DecodedAs(call[c].op, status)),
                       ![c].result = Some(BodyOutcome(call[c].op, status, body))]
    /\ UNCHANGED <<phase, builder, built, wire, transport_ok, server, test>>

\* the caller takes the result; the caller may invoke another operation
Return(c) ==
    /\ call[c].pc = "done"
    /\ call' = [call EXCEPT ![c] = Idle]
    /\ wire' = [wire EXCEPT ![c] = << >>]
    /\ UNCHANGED <<phase, builder, built, transport_ok, server, test>>

----------------------------------------------------------------------------
(* Specification: one caller issuing operations one after the other *)

Callers == { 1 }

\* no document has been handed to the decoder
NoTest == [ty |-> "", of |-> None, json |-> None, value |-> None]

Init ==
    /\ phase = "builder"
    /\ builder \in { new(base_url) : base_url \in BaseUrls }
    /\ built = None
    /\ call = [c \in CallIds |-> Idle]
    /\ wire = [c \in CallIds |-> << >>]
    /\ transport_ok \in BOOLEAN
    /\ server = << >>
    /\ test = NoTest

Next ==
    \/ \E key \in ApiKeys : api_key(key)
    \/ \E verify \in BOOLEAN : verify_ssl(verify)
    \/ build
    \/ \E c \in Callers, offset \in Offsets, limit \in Limits :
          list_sites(c, offset, limit)
    \/ \E c \in Callers, site_id \in SiteIds, offset \in Offsets, limit \in Limits :
          list_devices(c, site_id, offset, limit)
    \/ \E c \in Callers, site_id \in SiteIds, device_id \in DeviceIds :
          get_device_details(c, site_id, device_id)
    \/ \E c \in Callers, site_id \in SiteIds, device_id \in DeviceIds :
          get_device_statistics(c, site_id, device_id)
    \/ \E c \in Callers, site_id \in SiteIds, device_id \in DeviceIds :
          restart_device(c, site_id, device_id)
    \/ \E c \in Callers : get_info(c)
    \/ \E c \in Callers, site_id \in SiteIds, offset \in Offsets, limit \in Limits :
          list_clients(c, site_id, offset, limit)
    \/ \E c \in Callers : SendFailed(c)
    \/ \E c \in Callers, status \in Statuses : ResponseReceived(c, status)
    \/ \E c \in Callers : BodyFailed(c)
    \/ \E c \in Callers, body \in Bodies : BodyReceived(c, body)
    \/ \E c \in Callers : Return(c)

Spec == Init /\ [][Next]_vars

----------------------------------------------------------------------------
(* Properties of the builder *)

BuildReturned == phase = "built" /\ built # None
BuildResult == unwrap(built)

\* api_key() was called with a key that is a legal header value
Encodable(key) == \A i \in DOMAIN key : (key[i] >= 32 /\ key[i] < 127) \/ key[i] = 9

\* C1: build() on a builder on which api_key() was never called returns
\* UnifiError::Config and no client, for every base URL and every TLS flag.
C1_MissingKeyIsConfigError ==
    (BuildReturned /\ builder.api_key = None)
        => /\ ~BuildResult.ok
           /\ BuildResult.e.variant = "Config"

C1_Witness ==
    /\ BuildReturned
    /\ builder.api_key = None
    /\ builder.base_url = UrlNoScheme
    /\ ~builder.verify_ssl
    /\ ~BuildResult.ok

\* C2 as stated: with a non-empty, encodable API key build() returns a client,
\* whatever the base URL and the TLS flag.
C2_Original ==
    (/\ BuildReturned
     /\ builder.api_key # None
     /\ unwrap(builder.api_key) # << >>
     /\ Encodable(unwrap(builder.api_key)))
        => BuildResult.ok

\* C2 amended: with a non-empty, encodable API key build() returns a client holding
\* the builder's base URL whenever reqwest can set up its transport, whatever the base
\* URL and the TLS flag; when reqwest cannot, build() returns UnifiError::Http.
C2_ValidKeyBuilds ==
    (/\ BuildReturned
     /\ builder.api_key # None
     /\ unwrap(builder.api_key) # << >>
     /\ Encodable(unwrap(builder.api_key)))
        => IF transport_ok
           THEN /\ BuildResult.ok
                /\ BuildResult.v.base_url = builder.base_url
           ELSE /\ ~BuildResult.ok
                /\ BuildResult.e.variant = "Http"

C2_Witness ==
    /\ BuildReturned
    /\ builder.api_key = Some(KeyTest)
    /\ builder.base_url = UrlEmpty
    /\ ~builder.verify_ssl
    /\ transport_ok
    /\ BuildResult.ok

\* C3: with an API key that is no legal header value build() returns
\* UnifiError::Config: never a client, never an error of another kind.
C3_UnencodableKeyIsConfigError ==
    (/\ BuildReturned
     /\ builder.api_key # None
     /\ ~Encodable(unwrap(builder.api_key)))
        => /\ ~BuildResult.ok
           /\ BuildResult.e.variant = "Config"

C3_Witness ==
    /\ BuildReturned
    /\ builder.api_key = Some(KeyNewline)
    /\ ~transport_ok
    /\ ~BuildResult.ok

----------------------------------------------------------------------------
(* Properties of the operations *)

Done(c) == call[c].pc = "done"
Result(c) == unwrap(call[c].result)
Status(c) == unwrap(call[c].status)
Body(c) == unwrap(call[c].body)
Failure(c) == call[c].status # None /\ (Status(c) < 200 \/ Status(c) > 299)
Success(c) == call[c].status # None /\ Status(c) >= 200 /\ Status(c) <= 299

\* the body is the object {statusCode, message} with a status code that fits a u16
IsEnvelope(body) ==
    /\ body.t = "obj"
    /\ { "statusCode", "message" } \subseteq DOMAIN body.f
    /\ body.f.statusCode.t = "num"
    /\ body.f.statusCode.n \in 0 .. 65535
    /\ body.f.message.t = "str"

\* C4: for each operation, a non-success status with a body that is the error envelope
\* yields UnifiError::Api with exactly the envelope's statusCode and message.
C4_EnvelopeIsApiError ==
    \A c \in CallIds :
        (Done(c) /\ Failure(c) /\ call[c].body # None /\ IsEnvelope(Body(c)))
            => /\ ~Result(c).ok
               /\ Result(c).e.variant = "Api"
               /\ Result(c).e.status_code = Body(c).f.statusCode.n
               /\ Result(c).e.message = Body(c).f.message.s

C4_Witness ==
    \E c \in CallIds :
        /\ Done(c)
        /\ call[c].op = "restart_device"
        /\ call[c].status = Some(500)
        /\ call[c].body = Some(EnvelopeUnauthorized)
        /\ Result(c) = Err(Api(401, "Unauthorized access"))

\* C5: for each operation, a non-success status with a body that does not decode as
\* the error envelope yields the decode error (UnifiError::Http wrapping reqwest's
\* decode error): never a value, never UnifiError::Api.
C5_BadEnvelopeIsDecodeError ==
    \A c \in CallIds :
        (/\ Done(c) /\ Failure(c) /\ call[c].body # None
         /\ ~from_slice(ErrorResponse, Body(c)).ok)
            => /\ ~Result(c).ok
               /\ Result(c).e = Http("Decode")

C5_Witness ==
    \E c \in CallIds :
        /\ Done(c)
        /\ call[c].op = "list_sites"
        /\ call[c].status = Some(401)
        /\ call[c].body = Some(EnvelopeNoMessage)
        /\ ~Result(c).ok

\* C6: for each of the six operations that return a value, a success status with a
\* body that does not decode as the declared result type yields the decode error and
\* no value.
C6_BadResultIsDecodeError ==
    \A c \in CallIds :
        (/\ Done(c) /\ Success(c) /\ call[c].op # "restart_device"
         /\ call[c].body # None
         /\ ~from_slice(ResultType(call[c].op), Body(c)).ok)
            => /\ ~Result(c).ok
               /\ Result(c).e = Http("Decode")

C6_Witness ==
    \E c \in CallIds :
        /\ Done(c)
        /\ call[c].op = "get_device_details"
        /\ call[c].status = Some(200)
        /\ call[c].body = Some(EnvelopeUnauthorized)
        /\ ~Result(c).ok

\* C7 as stated: every invocation sends exactly one HTTP request, whatever the outcome.
C7_Original ==
    \A c \in CallIds : Done(c) => Len(wire[c]) = 1

\* C7 amended: an invocation hands the transport exactly one request when reqwest
\* accepts its URL and none when it does not (the invocation then ends at once with
\* reqwest's builder error); no request is sent again after a transport failure, a
\* non-success status or a decode failure.
C7_OneRequestPerAcceptedUrl ==
    \A c \in CallIds :
        /\ call[c].pc = "idle" => wire[c] = << >>
        /\ call[c].pc # "idle" =>
              IF IntoUrl(call[c].url)
              THEN Len(wire[c]) = 1 /\ wire[c][1].url = call[c].url
              ELSE /\ wire[c] = << >>
                   /\ Done(c)
                   /\ Result(c) = Err(Http("Builder"))

C7_Witness ==
    \E c \in CallIds :
        /\ Done(c)
        /\ Result(c) = Err(Http("Request"))
        /\ Len(wire[c]) = 1

RECURSIVE WellTyped(_, _)
\* the value has every field of the type, all the way down
WellTyped(ty, v) ==
    CASE ty.k \in { "u16", "i32", "i64", "f64" } -> v \in Int
      [] ty.k = "bool" -> v \in BOOLEAN
      [] ty.k \in { "String", "Uuid", "DateTime" } -> v \in STRING
      [] ty.k = "unit" -> v = "()"
      [] ty.k = "FrequencyBand" ->
            v \in { "Band2_4GHz", "Band5GHz", "Band6GHz", "Band60GHz" }
      [] ty.k = "opt" -> v = None \/ (Cardinality(v) = 1 /\ WellTyped(ty.of, unwrap(v)))
      [] ty.k = "vec" -> \A i \in DOMAIN v : WellTyped(ty.of, v[i])
      [] ty.k = "enum" -> \E i \in DOMAIN ty.variants : ty.variants[i].name = v
      [] ty.k = "tagged" ->
            \E i \in DOMAIN ty.variants :
                /\ ty.variants[i].name = v.variant
                /\ WellTyped(ty.variants[i].ty, v.v)
      [] ty.k = "struct" ->
            /\ DOMAIN v = FieldNames(ty.fields)
            /\ \A i \in DOMAIN ty.fields : WellTyped(ty.fields[i].ty, v[ty.fields[i].name])

\* C8: a completed invocation has exactly one outcome, a fully decoded value of the
\* operation's type or one error of the taxonomy; an invocation that has not
\* completed has none.
C8_OneOutcome ==
    \A c \in CallIds :
        /\ ~Done(c) => call[c].result = None
        /\ Done(c) =>
              /\ Cardinality(call[c].result) = 1
              /\ IF Result(c).ok
                 THEN WellTyped(ResultType(call[c].op), Result(c).v)
                 ELSE Result(c).e.variant \in { "Http", "Api", "Url", "Config" }

C8_Witness ==
    \E c \in CallIds :
        /\ Done(c)
        /\ call[c].op = "list_clients"
        /\ Result(c).ok
        /\ Len(Result(c).v.data) = 1
        /\ Result(c).v.data[1].variant = "Wired"

ListOperations == { "list_sites", "list_devices", "list_clients" }

\* C9: a request of list_sites, list_devices or list_clients carries offset and limit:
\* the caller's offset or 0, the caller's limit or 25, each chosen on its own.
C9_PaginationDefaults ==
    \A c \in CallIds :
        (call[c].op \in ListOperations /\ wire[c] # << >>) =>
            LET query == wire[c][1].query
                offset == call[c].args.offset
                limit == call[c].args.limit
            IN  /\ Len(query) = 2
                /\ query[1].k = "offset"
                /\ query[1].v = (IF offset = None THEN 0 ELSE unwrap(offset))
                /\ query[2].k = "limit"
                /\ query[2].v = (IF limit = None THEN 25 ELSE unwrap(limit))

C9_Witness ==
    \E c \in CallIds :
        /\ call[c].op = "list_clients"
        /\ call[c].args.offset = None
        /\ call[c].args.limit = Some(1)
        /\ Len(wire[c]) = 1
        /\ wire[c][1].query = << [k |-> "offset", v |-> 0], [k |-> "limit", v |-> 1] >>

\* the request restart_device is to send
RestartRequest(c, request) ==
    /\ request.method = "POST"
    /\ request.url = TheClient.base_url
                        \o << "/v1/sites/", unwrap(call[c].args.site_id),
                              "/devices/", unwrap(call[c].args.device_id), "/actions" >>
    /\ request.json = Some(JObj([action |-> JStr("RESTART")]))

\* how restart_device is to answer
RestartOutcome(c) ==
    Done(c) =>
        IF Success(c)
        THEN /\ Result(c) = Ok("()")
             /\ ~call[c].body_read
             /\ call[c].decoded = None
        ELSE ~Result(c).ok

\* C10 as stated: restart_device sends one POST with the action RESTART to the
\* device's actions path; it returns success without a value on every success status,
\* without reading the body, and an error in every other case.
C10_Original ==
    \A c \in CallIds :
        call[c].op = "restart_device" =>
            /\ Len(wire[c]) = 1
            /\ RestartRequest(c, wire[c][1])
            /\ RestartOutcome(c)

\* C10 amended: restart_device sends one POST with the action RESTART to the device's
\* actions path when reqwest accepts that URL, and no request when it does not; it
\* returns success without a value on every success status, without reading the body,
\* and an error in every other case.
C10_Restart ==
    \A c \in CallIds :
        call[c].op = "restart_device" =>
            /\ Len(wire[c]) = (IF IntoUrl(call[c].url) THEN 1 ELSE 0)
            /\ \A i \in DOMAIN wire[c] : RestartRequest(c, wire[c][i])
            /\ RestartOutcome(c)

C10_Witness ==
    \E c \in CallIds :
        /\ call[c].op = "restart_device"
        /\ Done(c)
        /\ call[c].status = Some(299)
        /\ Result(c) = Ok("()")
        /\ Len(wire[c]) = 1
        /\ wire[c][1].method = "POST"

----------------------------------------------------------------------------
(* C14 *)

IsApiError(c) == Done(c) /\ ~Result(c).ok /\ Result(c).e.variant = "Api"

\* C14 as stated: every API error an operation returns carries a status code of at
\* least 400.
C14_Original ==
    \A c \in CallIds : IsApiError(c) => Result(c).e.status_code >= 400

----------------------------------------------------------------------------
(* C15 *)

\* C15 as stated: when the URL an operation builds from the base URL does not parse,
\* the operation returns the malformed-URL error.
C15_Original ==
    \A c \in CallIds :
        Done(c) /\ ~IntoUrl(call[c].url) =>
            ~Result(c).ok /\ Result(c).e.variant = "Url"

----------------------------------------------------------------------------
(* C16 *)

NoTraffic == \A c \in CallIds : wire[c] = << >> /\ call[c] = Idle

\* C16: build() hands no request to the transport, whether it succeeds or fails, nor
\* does any step taken while the builder is being configured; and as long as there is
\* no client, because build() has not run or has returned an error, no request has
\* been sent and no operation has started.
C16_NoRequestWithoutClient ==
    /\ [](~HasClient => NoTraffic)
    /\ [][phase = "builder" => wire' = wire /\ call' = call]_vars

C16_Witness ==
    /\ BuildReturned
    /\ ~BuildResult.ok
    /\ BuildResult.e.variant = "Config"
    /\ NoTraffic

----------------------------------------------------------------------------
(* C17 *)

\* the one request of the invocation was sent and no response came back
SendingFailed(c) == Done(c) /\ Len(wire[c]) = 1 /\ call[c].status = None

\* C17: when sending fails in the transport, the operation returns the HTTP error
\* that carries the failure, and decodes nothing: neither a result nor an envelope.
C17_TransportFailureIsHttp ==
    \A c \in CallIds :
        SendingFailed(c) =>
            /\ Result(c) = Err(Http("Request"))
            /\ ~call[c].body_read
            /\ call[c].body = None
            /\ call[c].decoded = None

C17_Witness ==
    \E c \in CallIds :
        /\ call[c].op = "get_device_statistics"
        /\ SendingFailed(c)
        /\ Result(c) = Err(Http("Request"))

----------------------------------------------------------------------------
(* Specification: two callers sharing one client, their invocations interleaved *)

InitConc ==
    /\ Init
    /\ builder = new(UrlExample)
    /\ transport_ok

NextConc ==
    \/ api_key(KeyTest)
    \/ build
    \/ \E c \in CallIds, limit \in { None, Some(1) } : list_sites(c, None, limit)
    \/ \E c \in CallIds, limit \in { None, Some(1) } : list_devices(c, Uuid0, None, limit)
    \/ \E c \in CallIds : get_device_details(c, Uuid0, Uuid1)
    \/ \E c \in CallIds : get_device_statistics(c, Uuid0, Uuid1)
    \/ \E c \in CallIds : restart_device(c, Uuid0, Uuid1)
    \/ \E c \in CallIds : get_info(c)
    \/ \E c \in CallIds, limit \in { None, Some(1) } : list_clients(c, Uuid0, None, limit)
    \/ \E c \in CallIds : SendFailed(c)
    \/ \E c \in CallIds, status \in { 200, 401 } : ResponseReceived(c, status)
    \/ \E c \in CallIds : BodyFailed(c)
    \/ \E c \in CallIds :
          \E body \in { Malformed, EnvelopeUnauthorized, InfoBody, PageBody(<< >>) } :
              BodyReceived(c, body)
    \/ \E c \in CallIds : Return(c)

SpecConc == InitConc /\ [][NextConc]_vars

----------------------------------------------------------------------------
(* C18 *)

\* what an invocation was given: its operation and arguments, and the response to
\* its request as far as it arrived
Given(c) ==
    [op |-> call[c].op, args |-> call[c].args, status |-> call[c].status,
     body_read |-> call[c].body_read, body |-> call[c].body]

\* a step of one caller's invocation leaves the other callers' invocations and
\* requests as they are
StepsAreLocal ==
    \A c \in CallIds :
        call'[c] # call[c] \/ wire'[c] # wire[c] =>
            \A d \in CallIds \ { c } : call'[d] = call[d] /\ wire'[d] = wire[d]

\* two finished invocations that were given the same return the same, and two
\* invocations of the same operation with the same arguments sent the same request
OutcomeIsOwn ==
    \A c, d \in CallIds :
        /\ Done(c) /\ Done(d) /\ Given(c) = Given(d) => Result(c) = Result(d)
        /\ (call[c].pc # "idle" /\ call[d].pc # "idle"
               /\ call[c].op = call[d].op /\ call[c].args = call[d].args)
             => wire[c] = wire[d]

\* C18: with two callers on one client and every interleaving of their steps, no
\* step of an operation changes the client (its base URL and its authentication
\* header), a step of one invocation changes nothing of the other, and what an
\* invocation returns depends only on its arguments and on the response to its own
\* request.
C18_CallsDoNotInterfere ==
    /\ [][(built # None => built' = built) /\ StepsAreLocal]_vars
    /\ []OutcomeIsOwn

C18_Witness ==
    /\ call[1].pc = "json"
    /\ call[1].op = "list_sites"
    /\ Status(1) = 200
    /\ Done(2)
    /\ call[2].op = "list_sites"
    /\ Result(2) = Err(Api(401, "Unauthorized access"))
    /\ wire[1] = wire[2]

----------------------------------------------------------------------------
(* Specification: documents handed to the derived and hand-written decoders,  *)
(* as the unit tests do with serde_json::from_str                             *)

MaxBandNumber == 61

Bands == { "Band2_4GHz", "Band5GHz", "Band6GHz", "Band60GHz" }

SerializeFrequencyBand_unrenamed(band) == JStr(band)

\* #[derive(Serialize)] on a unit variant writes the variant's serde name as a string
SerializeFrequencyBand(band) ==
    CASE band = "Band2_4GHz" -> JStr("2.4")
      [] band = "Band5GHz" -> JStr("5")
      [] band = "Band6GHz" -> JStr("6")
      [] band = "Band60GHz" -> JStr("60")

\* literals offered to the frequency band's decoder
BandLiterals ==
    { JStr(s) : s \in { "2.4", "5", "6", "60", "", "2.4GHz", "5.0", "24", "Band5GHz" } }
        \cup { JNum(n) : n \in -MaxBandNumber .. MaxBandNumber }
        \cup { JFloat(tenths) : tenths \in -(10 * MaxBandNumber) .. (10 * MaxBandNumber) }
        \cup { JNull, JBool(TRUE), JBool(FALSE), JArr(<< >>), JArr(<< JNum(5) >>),
               JObj([frequencyGHz |-> JNum(5)]), Malformed }

PortBody ==
    JObj([idx |-> JNum(1), state |-> JStr("UP"), connector |-> JStr("RJ45"),
          maxSpeedMbps |-> JNum(1000), speedMbps |-> JNum(1000)])
RadioBody ==
    JObj([wlanStandard |-> JStr("802.11ax"), frequencyGHz |-> JStr("5"),
          channelWidthMHz |-> JNum(80), channel |-> JNum(36)])
InterfacesBody ==
    JObj([ports |-> JArr(<< PortBody >>), radios |-> JArr(<< RadioBody >>)])

\* the interfaces member of a device, with ports or radios left out or empty
InterfacesBodies ==
    { Without(InterfacesBody, names) : names \in SUBSET { "ports", "radios" } }
        \cup { With(InterfacesBody, "ports", JArr(<< >>)),
               With(InterfacesBody, "radios", JArr(<< >>)),
               JObj([ports |-> JArr(<< >>), radios |-> JArr(<< >>)]) }

\* Device Details documents: every member present but for some of the named ones
DetailsDocuments ==
    { Without(With(DetailsBody, "interfaces", interfaces), names) :
          interfaces \in InterfacesBodies,
          names \in SUBSET { "adoptedAt", "provisionedAt", "uplink", "features",
                             "interfaces" } }
        \cup { Without(DetailsBody, { name }) : name \in DOMAIN DetailsBody.f }

StatisticsFullBody ==
    JObj([uptimeSec |-> JNum(737201),
          lastHeartbeatAt |-> JStr("2025-01-18T12:00:00Z"),
          nextHeartbeatAt |-> JStr("2025-01-18T12:00:00Z"),
          loadAverage1Min |-> JFloat(16),
          loadAverage5Min |-> JFloat(14),
          loadAverage15Min |-> JFloat(11),
          cpuUtilizationPct |-> JFloat(308),
          memoryUtilizationPct |-> JFloat(611),
          uplink |-> JObj([txRateBps |-> JNum(309720), rxRateBps |-> JNum(32288)]),
          interfaces |-> JObj([radios |-> JArr(<<
              JObj([frequencyGHz |-> JFloat(24), txRetriesPct |-> JFloat(143)]) >>)])])

RadioStatisticsBodies ==
    { JObj([radios |-> JArr(<< JObj([frequencyGHz |-> JFloat(24),
                                     txRetriesPct |-> JFloat(143)]) >>)]),
      JObj([radios |-> JArr(<< JObj(<< >>) >>)]),
      JObj([radios |-> JArr(<< >>)]),
      JObj(<< >>) }

StatisticsDocuments ==
    { Without(With(StatisticsFullBody, "interfaces", interfaces), names) :
          interfaces \in RadioStatisticsBodies,
          names \in SUBSET { "loadAverage1Min", "loadAverage5Min", "loadAverage15Min",
                             "cpuUtilizationPct", "memoryUtilizationPct", "uplink",
                             "interfaces" } }
        \cup { Without(StatisticsFullBody, { name }) :
                   name \in DOMAIN StatisticsFullBody.f }

\* Client Overview documents: each type literal over the members of a wired client
ClientTypeLiterals == { "WIRED", "WIRELESS", "VPN", "TELEPORT", "wired", "GUEST" }
ClientDocuments ==
    { Without(With(WiredBody, "type", JStr(type)), names) :
          type \in ClientTypeLiterals,
          names \in SUBSET { "name", "ipAddress", "macAddress", "uplinkDeviceId" } }
        \cup { Without(WiredBody, { name }) : name \in { "type", "id", "connectedAt" } }
        \cup { With(WiredBody, "type", JNum(1)) }

TypeNamed(name) ==
    CASE name = "FrequencyBand" -> FrequencyBand
      [] name = "DeviceDetails" -> DeviceDetails
      [] name = "DeviceStatistics" -> DeviceStatistics
      [] name = "ClientOverview" -> ClientOverview

Documents(name) ==
    CASE name = "FrequencyBand" -> BandLiterals
      [] name = "DeviceDetails" -> DetailsDocuments
      [] name = "DeviceStatistics" -> StatisticsDocuments
      [] name = "ClientOverview" -> ClientDocuments

TestedTypes == { "FrequencyBand", "DeviceDetails", "DeviceStatistics", "ClientOverview" }

\* each test decodes one document
from_str(name, json) ==
    /\ test = NoTest
    /\ test' = [ty |-> name, of |-> None, json |-> Some(json),
                value |-> Some(from_slice(TypeNamed(name), json))]
    /\ UNCHANGED <<phase, builder, built, call, wire, transport_ok, server>>

\* a band written by its Serialize implementation and read back
round_trip(band) ==
    /\ test = NoTest
    /\ test' = [ty |-> "FrequencyBand", of |-> Some(band),
                json |-> Some(SerializeFrequencyBand(band)),
                value |-> Some(from_slice(FrequencyBand, SerializeFrequencyBand(band)))]
    /\ UNCHANGED <<phase, builder, built, call, wire, transport_ok, server>>

InitSerde ==
    /\ Init
    /\ builder = new(UrlExample)
    /\ transport_ok

NextSerde ==
    \/ \E name \in TestedTypes : \E json \in Documents(name) : from_str(name, json)
    \/ \E band \in Bands : round_trip(band)

SpecSerde == InitSerde /\ [][NextSerde]_vars

Tested(name) == test.ty = name /\ test.json # None
Document == unwrap(test.json)
Value == unwrap(test.value)

----------------------------------------------------------------------------
(* C11 *)

StringForm(band) ==
    CASE band = "Band2_4GHz" -> "2.4"
      [] band = "Band5GHz" -> "5"
      [] band = "Band6GHz" -> "6"
      [] band = "Band60GHz" -> "60"

\* the integer a band can be written as; 2.4 GHz has none
IntegerForm(band) ==
    CASE band = "Band2_4GHz" -> None
      [] band = "Band5GHz" -> Some(5)
      [] band = "Band6GHz" -> Some(6)
      [] band = "Band60GHz" -> Some(60)

\* the number with a fraction a band can be written as, in tenths
DecimalForm(band) ==
    CASE band = "Band2_4GHz" -> 24
      [] band = "Band5GHz" -> 50
      [] band = "Band6GHz" -> 60
      [] band = "Band60GHz" -> 600

IsStringForm(j, band) == j = JStr(StringForm(band))
IsIntegerForm(j, band) == IntegerForm(band) # None /\ j = JNum(unwrap(IntegerForm(band)))
IsDecimalForm(j, band) == j = JFloat(DecimalForm(band))
IsAcceptedForm(j, band) ==
    IsStringForm(j, band) \/ IsIntegerForm(j, band) \/ IsDecimalForm(j, band)

\* C11 as stated: a band that is encoded and decoded back comes out unchanged; the
\* string form of a band and, for 5, 6 and 60, its integer form decode to that band;
\* every other literal fails to decode.
C11_Original ==
    Tested("FrequencyBand") =>
        /\ test.of # None => Value = Ok(unwrap(test.of))
        /\ \A band \in Bands :
              IsStringForm(Document, band) \/ IsIntegerForm(Document, band)
                  => Value = Ok(band)
        /\ (\A band \in Bands :
              ~ IsStringForm(Document, band) /\ ~ IsIntegerForm(Document, band))
                  => ~ Value.ok

\* C11 amended: a band that is encoded and decoded back comes out unchanged; the
\* string form of a band, its form as a number with a fraction (2.4, 5.0, 6.0, 60.0)
\* and, for 5, 6 and 60, its integer form decode to that band; every other literal
\* fails to decode.
C11_FrequencyBandRoundTrip ==
    Tested("FrequencyBand") =>
        /\ test.of # None => Value = Ok(unwrap(test.of))
        /\ \A band \in Bands :
              IsAcceptedForm(Document, band) => Value = Ok(band)
        /\ (\A band \in Bands : ~ IsAcceptedForm(Document, band)) => ~ Value.ok

C11_Witness ==
    /\ Tested("FrequencyBand")
    /\ test.of = Some("Band2_4GHz")
    /\ Document = JStr("2.4")
    /\ Value = Ok("Band2_4GHz")

----------------------------------------------------------------------------
(* C12 *)

DetailsRequired ==
    { "id", "name", "model", "supported", "macAddress", "ipAddress", "state",
      "firmwareVersion", "firmwareUpdatable", "configurationId" }
DetailsOptional ==
    [adoptedAt |-> "adopted_at", provisionedAt |-> "provisioned_at",
     uplink |-> "uplink", features |-> "features", interfaces |-> "interfaces"]

StatisticsRequired == { "uptimeSec", "lastHeartbeatAt", "nextHeartbeatAt" }
StatisticsOptional ==
    [loadAverage1Min |-> "load_average_1min", loadAverage5Min |-> "load_average_5min",
     loadAverage15Min |-> "load_average_15min",
     cpuUtilizationPct |-> "cpu_utilization_pct",
     memoryUtilizationPct |-> "memory_utilization_pct",
     uplink |-> "uplink", interfaces |-> "interfaces"]

\* the members of a document's interfaces object: none when it has no such object
Interfaces == IF "interfaces" \in DOMAIN Document.f THEN Document.f.interfaces.f ELSE << >>

\* a sequence member of interfaces that is left out, or empty, decodes to no elements
EmptyWhenAbsent(member) ==
    "interfaces" \in DOMAIN Document.f =>
        ( member \notin DOMAIN Interfaces \/ Interfaces[member] = JArr(<< >>)
            => unwrap(Value.v.interfaces)[member] = << >> )

\* every optional member that is left out decodes to None
NoneWhenAbsent(optional) ==
    \A name \in DOMAIN optional :
        name \notin DOMAIN Document.f => Value.v[optional[name]] = None

\* C12: a Device Details document with all its required members decodes whichever of
\* adoptedAt, provisionedAt, uplink, features and interfaces are left out; the ports
\* and radios of interfaces decode to empty sequences when left out or empty; a
\* Device Statistics document decodes whichever of its optional members are left out.
C12_OptionalFieldsMayBeAbsent ==
    /\ Tested("DeviceDetails") /\ DetailsRequired \subseteq DOMAIN Document.f =>
          /\ Value.ok
          /\ NoneWhenAbsent(DetailsOptional)
          /\ EmptyWhenAbsent("ports")
          /\ EmptyWhenAbsent("radios")
    /\ Tested("DeviceStatistics") /\ StatisticsRequired \subseteq DOMAIN Document.f =>
          /\ Value.ok
          /\ NoneWhenAbsent(StatisticsOptional)
          /\ EmptyWhenAbsent("radios")

C12_Witness ==
    /\ Tested("DeviceDetails")
    /\ DOMAIN Document.f = DetailsRequired
    /\ Value.ok
    /\ Value.v.adopted_at = None
    /\ Value.v.interfaces = None

----------------------------------------------------------------------------
(* C13 *)

VariantOf(type) ==
    CASE type = "WIRED" -> "Wired"
      [] type = "WIRELESS" -> "Wireless"
      [] type = "VPN" -> "Vpn"
      [] type = "TELEPORT" -> "Teleport"

\* the members each type needs: the base ones, and for WIRED and WIRELESS the MAC
\* address and the uplink device
MembersOf(type) ==
    IF type \in { "WIRED", "WIRELESS" }
    THEN { "id", "connectedAt", "macAddress", "uplinkDeviceId" }
    ELSE { "id", "connectedAt" }

HasType(type) == "type" \in DOMAIN Document.f /\ Document.f.type = JStr(type)

\* C13: a Client Overview document decodes to the variant its type names, WIRED to
\* Wired, WIRELESS to Wireless, VPN to Vpn and TELEPORT to Teleport, whatever other
\* members it has; VPN and TELEPORT documents need neither a MAC address nor an
\* uplink device.
C13_VariantFollowsType ==
    Tested("ClientOverview") =>
        \A type \in { "WIRED", "WIRELESS", "VPN", "TELEPORT" } :
            HasType(type) /\ MembersOf(type) \subseteq DOMAIN Document.f =>
                /\ Value.ok
                /\ Value.v.variant = VariantOf(type)
                /\ Value.v.v.base.id = Document.f.id.s

C13_Witness ==
    /\ Tested("ClientOverview")
    /\ DOMAIN Document.f = { "type", "id", "connectedAt" }
    /\ Document.f.type = JStr("TELEPORT")
    /\ Value.ok
    /\ Value.v.variant = "Teleport"

----------------------------------------------------------------------------
(* Specification: list_devices against a controller that holds a collection of  *)
(* devices and serves the slice each request names                              *)

\* the value of a query parameter; the controller's own default when it is not sent
QueryValue(query, key, default) ==
    IF \E i \in DOMAIN query : query[i].k = key
    THEN query[CHOOSE i \in DOMAIN query : query[i].k = key].v
    ELSE default

\* the page the controller answers a list request with
ServePage(devices, query) ==
    LET offset == QueryValue(query, "offset", DefaultOffset)
        limit == QueryValue(query, "limit", DefaultLimit)
        last == IF offset + limit <= Len(devices) THEN offset + limit ELSE Len(devices)
        slice == SubSeq(devices, offset + 1, last)
    IN  JObj([offset |-> JNum(offset), limit |-> JNum(limit),
              count |-> JNum(Len(slice)), totalCount |-> JNum(Len(devices)),
              data |-> JArr([i \in DOMAIN slice |->
                                With(DeviceBody, "id", JStr(slice[i]))])])

\* the controller's answer to the request of caller c arrives whole
PageServed(c) ==
    /\ Len(wire[c]) = 1
    /\ BodyReceived(c, ServePage(server, wire[c][1].query))

\* collections of devices, no device twice
Collections ==
    { devices \in UNION { [1 .. n -> DeviceIds] : n \in 0 .. Cardinality(DeviceIds) } :
          \A i, j \in DOMAIN devices : devices[i] = devices[j] => i = j }

InitPaging ==
    /\ phase = "builder"
    /\ builder = new(UrlExample)
    /\ built = None
    /\ call = [c \in CallIds |-> Idle]
    /\ wire = [c \in CallIds |-> << >>]
    /\ transport_ok = TRUE
    /\ server \in Collections
    /\ test = NoTest

NextPaging ==
    \/ api_key(KeyTest)
    \/ build
    \/ \E c \in CallIds, offset \in 0 .. MaxOffset, limit \in 1 .. MaxLimit :
          list_devices(c, Uuid0, Some(offset), Some(limit))
    \/ \E c \in CallIds : ResponseReceived(c, 200)
    \/ \E c \in CallIds : PageServed(c)
    \/ \E c \in CallIds : Return(c)

SpecPaging == InitPaging /\ [][NextPaging]_vars

----------------------------------------------------------------------------
(* C19 *)

\* caller c has the page it asked for with this offset and limit
HasPage(c, offset, limit) ==
    /\ Done(c)
    /\ call[c].op = "list_devices"
    /\ call[c].args.offset = Some(offset)
    /\ call[c].args.limit = Some(limit)

BothPages == HasPage(1, 0, 1) /\ HasPage(2, 1, 1)

\* C19: against a controller that holds at least two devices, list_devices on one
\* site with limit 1 at offset 0 and at offset 1 returns two pages of one Device
\* Overview each, the two with different identifiers, and the first page reports
\* limit 1.
C19_Pagination ==
    BothPages /\ call[1].args.site_id = call[2].args.site_id /\ Len(server) >= 2
        => /\ Result(1).ok
           /\ Result(2).ok
           /\ Len(Result(1).v.data) = 1
           /\ Len(Result(2).v.data) = 1
           /\ Result(1).v.data[1].id # Result(2).v.data[1].id
           /\ Result(1).v.limit = 1

C19_Witness ==
    /\ BothPages
    /\ Len(server) >= 2
    /\ Result(1).ok
    /\ Result(2).ok
    /\ Result(1).v.data[1].id = server[1]
    /\ Result(2).v.data[1].id = server[2]

----------------------------------------------------------------------------
(* C20 *)

ReturnedPage(c) == Done(c) /\ call[c].op \in ListOperations /\ Result(c).ok

\* C20 as stated: in every Page a list operation returns, count is the length of data.
C20_Original ==
    \A c \in CallIds :
        ReturnedPage(c) => Result(c).v.count = Len(Result(c).v.data)

\* C20 amended: in every Page a list operation returns, count is the count member of
\* the response body and data has one element for each element of the body's data;
\* count is the length of data exactly when the body says so.
C20_CountIsTheBodys ==
    \A c \in CallIds :
        ReturnedPage(c) /\ Body(c).t = "obj" =>
            /\ Result(c).v.count = Body(c).f.count.n
            /\ Len(Result(c).v.data) = Len(Body(c).f.data.a)
            /\ Result(c).v.count = Len(Result(c).v.data)
                 <=> Body(c).f.count.n = Len(Body(c).f.data.a)

C20_Witness ==
    \E c \in CallIds :
        /\ ReturnedPage(c)
        /\ Body(c) = PageMiscounted
        /\ Result(c).v.count = 2
        /\ Len(Result(c).v.data) = 1

----------------------------------------------------------------------------
(* C21 *)

\* the header map of a client built with this key
KeyHeader(key) == << [name |-> "X-API-KEY", value |-> key] >>

\* C21: every request an operation hands to the transport carries the one header
\* X-API-KEY with the key the builder held when build() ran; a call of api_key(key)
\* makes key the builder's key, replacing an earlier one; and no step changes the
\* client once it is built.
C21_EveryRequestCarriesTheKey ==
    /\ [](\A c \in CallIds : \A i \in DOMAIN wire[c] :
              /\ builder.api_key # None
              /\ wire[c][i].headers = KeyHeader(unwrap(builder.api_key)))
    /\ [][(\A key \in ApiKeys : api_key(key) => builder'.api_key = Some(key))
          /\ (built # None => built' = built /\ builder' = builder)]_vars

C21_Witness ==
    \E c \in CallIds :
        /\ Len(wire[c]) = 1
        /\ builder.api_key = Some(KeyTest)
        /\ wire[c][1].headers = KeyHeader(KeyTest)

----------------------------------------------------------------------------
(* C22 *)

\* the operation table: method and path of each operation
TableMethod(op) == IF op = "restart_device" THEN "POST" ELSE "GET"

TablePath(op, site, device) ==
    CASE op = "list_sites" -> << "/v1/sites" >>
      [] op = "list_devices" -> << "/v1/sites/", site, "/devices" >>
      [] op = "get_device_details" -> << "/v1/sites/", site, "/devices/", device >>
      [] op = "get_device_statistics" ->
            << "/v1/sites/", site, "/devices/", device, "/statistics/latest" >>
      [] op = "restart_device" ->
            << "/v1/sites/", site, "/devices/", device, "/actions" >>
      [] op = "get_info" -> << "/v1/info" >>
      [] op = "list_clients" -> << "/v1/sites/", site, "/clients" >>

\* an argument of the invocation, or the empty text when the operation takes none
Argument(o) == IF o = None THEN "" ELSE unwrap(o)

\* C22: every request of an invocation has the method of the operation table and the
\* URL made of the builder's base URL, unchanged, followed by the table's path with
\* the caller's site and device identifiers in it, unchanged.
C22_MethodAndPath ==
    \A c \in CallIds : \A i \in DOMAIN wire[c] :
        /\ wire[c][i].method = TableMethod(call[c].op)
        /\ wire[c][i].url =
              builder.base_url \o TablePath(call[c].op, Argument(call[c].args.site_id),
                                            Argument(call[c].args.device_id))

C22_Witness ==
    \E c \in CallIds :
        /\ call[c].op = "get_device_statistics"
        /\ Len(wire[c]) = 1
        /\ wire[c][1].method = "GET"
        /\ wire[c][1].url = UrlExample \o << "/v1/sites/", Uuid0, "/devices/", Uuid1,
                                             "/statistics/latest" >>

----------------------------------------------------------------------------
(* C23 *)

ClientTypes == { "WIRED", "WIRELESS", "VPN", "TELEPORT" }

\* the document names none of the four types: it has no type, or another value there
HasNoKnownType == \A type \in ClientTypes : ~HasType(type)

\* the document is tagged WIRED or WIRELESS and lacks the MAC address or the uplink
LacksVariantMember ==
    /\ HasType("WIRED") \/ HasType("WIRELESS")
    /\ ~ ({ "macAddress", "uplinkDeviceId" } \subseteq DOMAIN Document.f)

\* C23: a Client Overview document whose type is none of WIRED, WIRELESS, VPN and
\* TELEPORT, or that has no type, fails to decode; so does a document tagged WIRED
\* or WIRELESS without the MAC address or without the uplink device id.
C23_UnionIsClosed ==
    Tested("ClientOverview") /\ Document.t = "obj" =>
        /\ HasNoKnownType => ~Value.ok
        /\ LacksVariantMember => ~Value.ok

C23_Witness ==
    /\ Tested("ClientOverview")
    /\ HasType("WIRED")
    /\ "uplinkDeviceId" \in DOMAIN Document.f
    /\ "macAddress" \notin DOMAIN Document.f
    /\ ~Value.ok

----------------------------------------------------------------------------
(* Specification: two callers on one client, with a transport that answers: the   *)
(* request of an invocation that awaits is eventually answered or fails, and a    *)
(* body that is awaited eventually arrives or fails                               *)

\* the transport's steps for caller c, on which the invocation's .await resumes
Delivery(c) ==
    \/ SendFailed(c)
    \/ \E status \in { 200, 401 } : ResponseReceived(c, status)
    \/ BodyFailed(c)
    \/ \E body \in { Malformed, EnvelopeUnauthorized, InfoBody, PageBody(<< >>) } :
          BodyReceived(c, body)

SpecLive == InitConc /\ [][NextConc]_vars /\ \A c \in CallIds : WF_vars(Delivery(c))

----------------------------------------------------------------------------
(* C24 *)

Awaiting(c) == call[c].pc \in { "send", "json" }

\* the invocation of caller c completes in this step, having sent a request
Completes(c) == call[c].pc # "done" /\ call'[c].pc = "done" /\ wire'[c] # << >>

\* the response, or the failure, of the invocation's request is what it has in hand
Answered(c) ==
    \/ call'[c].status # None
    \/ call'[c].result = Some(Err(Http("Request")))

\* C24: with a transport that eventually answers every request or fails it, every
\* invocation that awaits eventually completes, with a value or an error; and an
\* invocation that sent a request completes only in a step that awaited it and with
\* the response, or the failure, of that request in hand.
C24_InvocationsComplete ==
    /\ \A c \in CallIds : Awaiting(c) ~> (Done(c) /\ call[c].result # None)
    /\ [][\A c \in CallIds : Completes(c) => Awaiting(c) /\ Answered(c)]_vars

C24_Witness ==
    \E c \in CallIds :
        /\ call[c].op = "get_info"
        /\ Done(c)
        /\ call[c].status = Some(200)
        /\ Result(c).ok

----------------------------------------------------------------------------
(* C25 *)

\* the invocation of caller c is over and a response had arrived for it
Responded(c) == Done(c) /\ call[c].status # None

\* C25: an invocation returns a value only on a status from 200 to 299; on a status
\* in that range its body, when one is read, is decoded as the operation's result;
\* on every other status, 1xx and 3xx included, it returns an error, and a body that
\* is read is decoded as the error envelope and gives the API error or the decode
\* error.
C25_SuccessIs2xx ==
    \A c \in CallIds :
        Responded(c) =>
            /\ Result(c).ok => Success(c)
            /\ Success(c) /\ call[c].body_read =>
                  call[c].decoded = Some(ResultType(call[c].op).name)
            /\ Failure(c) => ~Result(c).ok
            /\ Failure(c) /\ call[c].body_read =>
                  /\ call[c].decoded = Some("ErrorResponse")
                  /\ Result(c).e.variant = "Api" \/ Result(c).e = Http("Decode")

C25_Witness ==
    \E c \in CallIds :
        /\ Done(c)
        /\ call[c].op = "get_info"
        /\ call[c].status = Some(300)
        /\ call[c].body = Some(InfoBody)
        /\ call[c].decoded = Some("ErrorResponse")
        /\ Result(c) = Err(Http("Decode"))

----------------------------------------------------------------------------
(* C26 *)

ItemType(op) ==
    CASE op = "list_sites" -> SiteOverview
      [] op = "list_devices" -> DeviceOverview
      [] op = "list_clients" -> ClientOverview

\* the body is a page: an object whose data is an array
IsPage(body) == body.t = "obj" /\ "data" \in DOMAIN body.f /\ body.f.data.t = "arr"

\* an item of the page does not decode as the item type of the operation
HasBadItem(op, body) ==
    \E i \in DOMAIN body.f.data.a : ~Decode(ItemType(op), body.f.data.a[i]).ok

\* C26: when one item of the page in a success response does not decode as the item
\* type of the list operation, the operation returns the decode error and no page:
\* none of the other items is returned.
C26_ListIsAllOrNothing ==
    \A c \in CallIds :
        (/\ Done(c) /\ Success(c) /\ call[c].op \in ListOperations
         /\ call[c].body # None /\ IsPage(Body(c)) /\ HasBadItem(call[c].op, Body(c)))
            => Result(c) = Err(Http("Decode"))

C26_Witness ==
    \E c \in CallIds :
        /\ Done(c)
        /\ call[c].op = "list_devices"
        /\ call[c].status = Some(200)
        /\ call[c].body = Some(PageOneBadDevice)
        /\ Decode(DeviceOverview, Body(c).f.data.a[1]).ok
        /\ ~Result(c).ok

----------------------------------------------------------------------------
(* C27 *)

\* the body is an object whose statusCode is a whole number outside 0 .. 65535
StatusCodeOutOfRange(body) ==
    /\ body.t = "obj"
    /\ "statusCode" \in DOMAIN body.f
    /\ body.f.statusCode.t = "num"
    /\ body.f.statusCode.n < 0 \/ body.f.statusCode.n > U16Max

====
